---- MODULE Spec2Model ----
(***************************************************************************)
(* Model of auto-organize (src/src/main.rs): one invocation of the tool on *)
(* a target directory.  File and category names are sequences of           *)
(* characters so that extension parsing and lower-casing are computed the  *)
(* way the program computes them.  The filesystem is a set of nodes; each  *)
(* node remembers the path it had before the run (orig), which identifies  *)
(* it when it is moved.  Symbolic links and non-UTF-8 names are not        *)
(* modelled.  Output is modelled for the per-entry lines and the summary.  *)
(***************************************************************************)
EXTENDS Integers, Sequences, FiniteSets, TLC

\* ---------------------------------------------------------------- bounds
MaxEntries == 3   \* most nodes below the target before the run

\* ----------------------------------------------------------------- names
N_images == <<"i","m","a","g","e","s">>
N_documents == <<"d","o","c","u","m","e","n","t","s">>
N_spreadsheets == <<"s","p","r","e","a","d","s","h","e","e","t","s">>
N_presentations == <<"p","r","e","s","e","n","t","a","t","i","o","n","s">>
N_archives == <<"a","r","c","h","i","v","e","s">>
N_audio == <<"a","u","d","i","o">>
N_video == <<"v","i","d","e","o">>
N_code == <<"c","o","d","e">>
N_APPS == <<"A","P","P","S">>
N_Others == <<"O","t","h","e","r","s">>
N_Folders == <<"F","o","l","d","e","r","s">>
N_aJPG == <<"a",".","J","P","G">>
N_dotmd == <<".","m","d">>
N_xzz == <<"x",".","z","z">>
N_targz == <<"t",".","t","a","r",".","g","z">>
N_others == <<"o","t","h","e","r","s">>

\* Names an entry of the target directory can bear in the model.
Names == {N_aJPG, N_dotmd, N_xzz, N_targz, N_others, N_Folders, N_Others, N_images}

Range(s) == {s[i] : i \in DOMAIN s}

\* ------------------------------------------------------- static tables
\* the protected names without the catch-all for files
protected_without_others ==
  {N_images, N_documents, N_spreadsheets, N_presentations, N_archives,
   N_audio, N_video, N_code, N_APPS, N_Folders}

\* get_protected_folder_names
get_protected_folder_names ==
  {N_images, N_documents, N_spreadsheets, N_presentations, N_archives,
   N_audio, N_video, N_code, N_APPS, N_Others, N_Folders}

\* the (category, extensions) groups of get_extension_map
categories ==
  <<
    <<N_images, <<
        <<"j","p","g">>,
        <<"j","p","e","g">>,
        <<"p","n","g">>,
        <<"g","i","f">>,
        <<"b","m","p">>,
        <<"s","v","g">>,
        <<"w","e","b","p">>,
        <<"i","c","o">>,
        <<"t","i","f","f">>,
        <<"h","e","i","c">>>> >>,
    <<N_documents, <<
        <<"p","d","f">>,
        <<"d","o","c">>,
        <<"d","o","c","x">>,
        <<"t","x","t">>,
        <<"r","t","f">>,
        <<"o","d","t">>,
        <<"m","d">>>> >>,
    <<N_spreadsheets, <<
        <<"x","l","s">>,
        <<"x","l","s","x">>,
        <<"c","s","v">>,
        <<"o","d","s">>>> >>,
    <<N_presentations, <<
        <<"p","p","t">>,
        <<"p","p","t","x">>,
        <<"o","d","p">>,
        <<"k","e","y">>>> >>,
    <<N_archives, <<
        <<"z","i","p">>,
        <<"r","a","r">>,
        <<"t","a","r">>,
        <<"g","z">>,
        <<"b","z","2">>,
        <<"7","z">>,
        <<"i","s","o">>>> >>,
    <<N_audio, <<
        <<"m","p","3">>,
        <<"w","a","v">>,
        <<"f","l","a","c">>,
        <<"a","a","c">>,
        <<"o","g","g">>,
        <<"m","4","a">>>> >>,
    <<N_video, <<
        <<"m","p","4">>,
        <<"m","k","v">>,
        <<"a","v","i">>,
        <<"m","o","v">>,
        <<"w","m","v">>,
        <<"w","e","b","m">>>> >>,
    <<N_code, <<
        <<"r","s">>,
        <<"p","y">>,
        <<"j","s">>,
        <<"t","s">>,
        <<"j","a","v","a">>,
        <<"c">>,
        <<"c","p","p">>,
        <<"g","o">>,
        <<"r","b">>,
        <<"p","h","p">>,
        <<"h","t","m","l">>,
        <<"c","s","s">>,
        <<"j","s","o","n">>>> >>,
    <<N_APPS, <<
        <<"e","x","e">>,
        <<"m","s","i">>,
        <<"d","m","g">>,
        <<"a","p","p">>,
        <<"d","e","b">>,
        <<"r","p","m">>,
        <<"a","p","k">>,
        <<"a","p","p","i","m","a","g","e">>,
        <<"s","h">>,
        <<"b","a","t">>>> >>
  >>

\* get_extension_map: every extension is inserted under its group's
\* category; a later insertion of the same key overwrites an earlier one.
get_extension_map ==
  LET keys == UNION {Range(categories[g][2]) : g \in DOMAIN categories}
      last(e) == CHOOSE g \in DOMAIN categories :
                   /\ e \in Range(categories[g][2])
                   /\ \A h \in DOMAIN categories :
                        e \in Range(categories[h][2]) => h <= g
  IN [e \in keys |-> categories[last(e)][1]]

\* ------------------------------------------------------ string helpers
UpperCase == <<"A","B","C","D","E","F","G","H","I","J","K","L","M",
               "N","O","P","Q","R","S","T","U","V","W","X","Y","Z">>
LowerCase == <<"a","b","c","d","e","f","g","h","i","j","k","l","m",
               "n","o","p","q","r","s","t","u","v","w","x","y","z">>

\* str::to_lowercase on ASCII text
to_lowercase(s) ==
  [i \in DOMAIN s |->
     IF \E k \in DOMAIN UpperCase : UpperCase[k] = s[i]
       THEN LowerCase[CHOOSE k \in DOMAIN UpperCase : UpperCase[k] = s[i]]
       ELSE s[i]]

\* index of the last "." of a name, 0 when there is none
LastDot(n) ==
  IF \E i \in DOMAIN n : n[i] = "."
    THEN CHOOSE i \in DOMAIN n : n[i] = "." /\ \A j \in DOMAIN n : n[j] = "." => j <= i
    ELSE 0

\* Path::extension followed by unwrap_or_default: the text after the last
\* dot; no extension when there is no dot or when the only dot leads the name.
extension(n) ==
  IF LastDot(n) <= 1 THEN <<>> ELSE SubSeq(n, LastDot(n) + 1, Len(n))

\* the category of a file name, the extension not lower-cased
CategoryOf_no_lower(n) ==
  LET ext == extension(n)
  IN IF ext \in DOMAIN get_extension_map THEN get_extension_map[ext] ELSE N_Others

\* main, "Handle Files": the category of a file name
CategoryOf(n) ==
  LET ext == to_lowercase(extension(n))
  IN IF ext \in DOMAIN get_extension_map THEN get_extension_map[ext] ELSE N_Others

\* ------------------------------------------------------------ filesystem
\* A node: its path below the target (<<name>> or <<container, name>>), its
\* kind, and orig, the path it had before the run (<<>> for a directory the
\* run created).  The contents of a loose directory travel with its node.
Exists(fs, p) == \E e \in fs : e.path = p
NodeAt(fs, p) == CHOOSE e \in fs : e.path = p
IsDir(fs, p) == \E e \in fs : e.path = p /\ e.kind = "dir"
TopNames(fs) == {e.path[1] : e \in {x \in fs : Len(x.path) = 1}}
Children(fs, p) == {e \in fs : Len(e.path) = Len(p) + 1 /\ SubSeq(e.path, 1, Len(p)) = p}

\* whether entries can be added to or removed from the target directory
Writable(target) == target = "ok"

\* fs::create_dir_all on a path directly below the target
create_dir_all(fs, target, p) ==
  IF IsDir(fs, p) THEN [ok |-> TRUE, fs |-> fs]
  ELSE IF Exists(fs, p) \/ ~Writable(target) THEN [ok |-> FALSE, fs |-> fs]
  ELSE [ok |-> TRUE, fs |-> fs \cup {[path |-> p, kind |-> "dir", orig |-> <<>>]}]

\* fs::rename of a top-level entry to <<container, name>>: fails when the
\* source is missing, the destination's parent is not a directory, the
\* target directory is not writable, the source would move below itself, or
\* the destination is occupied by something rename cannot replace; a file
\* replaces an existing file.
rename(fs, target, from, to) ==
  LET parent == SubSeq(to, 1, Len(to) - 1)
      src == NodeAt(fs, from)
      fails ==
        \/ ~Exists(fs, from)
        \/ ~IsDir(fs, parent)
        \/ ~Writable(target)
        \/ parent = from
        \/ Exists(fs, to) /\ ~(src.kind = "file" /\ NodeAt(fs, to).kind = "file")
  IN IF fails THEN [ok |-> FALSE, fs |-> fs]
     ELSE [ok |-> TRUE,
           fs |-> (fs \ ({e \in fs : e.path \in {from, to}} \cup Children(fs, from)))
                    \cup {[path |-> to, kind |-> src.kind, orig |-> src.orig]}]

\* ---------------------------------------------------------------- output
Line(stream, tag, category, name) ==
  [stream |-> stream, tag |-> tag, category |-> category, name |-> name]

\* --------------------------------------------------- faulty relocators
\* Variants of the relocators, each with one slip, used to show that the
\* properties below depend on the code.  v.skip: the collision check is
\* made; v.dry_skip: it is made in a dry run; v.dry_create: the container
\* is created in a dry run too; v.keep_src: the move leaves the source
\* behind; v.fail_ret: the value returned when the rename fails.
Faithful == [skip |-> TRUE, dry_skip |-> TRUE, dry_create |-> FALSE,
             keep_src |-> FALSE, fail_ret |-> FALSE]

relocate_variant(fs, target, name, container, dry_run, v, tags) ==
  LET container_dir == <<container>>
      mk == IF (v.dry_create \/ ~dry_run) /\ ~Exists(fs, container_dir)
              THEN create_dir_all(fs, target, container_dir)
              ELSE [ok |-> TRUE, fs |-> fs]
      dest_path == <<container, name>>
      mv == rename(mk.fs, target, <<name>>, dest_path)
      check == v.skip /\ (v.dry_skip \/ ~dry_run)
  IN IF ~mk.ok
       THEN [fs |-> fs, ret |-> FALSE, out |-> <<Line("stderr", tags[1], container, <<>>)>>]
     ELSE IF check /\ Exists(mk.fs, dest_path)
       THEN [fs |-> mk.fs, ret |-> FALSE, out |-> <<Line("stdout", tags[2], container, name)>>]
     ELSE IF dry_run
       THEN [fs |-> mk.fs, ret |-> TRUE, out |-> <<Line("stdout", tags[3], container, name)>>]
     ELSE IF ~mv.ok
       THEN [fs |-> mk.fs, ret |-> v.fail_ret,
             out |-> <<Line("stdout", tags[3], container, name),
                       Line("stderr", tags[4], container, name)>>]
     ELSE [fs |-> IF v.keep_src THEN mv.fs \cup {NodeAt(fs, <<name>>)} ELSE mv.fs,
           ret |-> TRUE,
           out |-> <<Line("stdout", tags[3], container, name)>>]

FileTags == <<"ERR_CREATE", "SKIP", "ACT", "ERR_MOVE">>
DirTags == <<"ERR_CREATE_CONTAINER", "SKIP_DIR", "ACT_DIR", "ERR_MOVE_DIR">>

\* process_file without the collision check
process_file_overwrite(fs, target, name, category, dry_run) ==
  relocate_variant(fs, target, name, category, dry_run,
                   [Faithful EXCEPT !.skip = FALSE], FileTags)

\* process_file creating the category directory in a dry run as well
process_file_dry_create(fs, target, name, category, dry_run) ==
  relocate_variant(fs, target, name, category, dry_run,
                   [Faithful EXCEPT !.dry_create = TRUE], FileTags)

\* process_file copying instead of renaming
process_file_keep_src(fs, target, name, category, dry_run) ==
  relocate_variant(fs, target, name, category, dry_run,
                   [Faithful EXCEPT !.keep_src = TRUE], FileTags)

\* process_file returning true although the rename failed
process_file_fail_true(fs, target, name, category, dry_run) ==
  relocate_variant(fs, target, name, category, dry_run,
                   [Faithful EXCEPT !.fail_ret = TRUE], FileTags)

\* process_directory without the collision check
process_directory_no_skip(fs, target, name, dest_container, dry_run) ==
  relocate_variant(fs, target, name, dest_container, dry_run,
                   [Faithful EXCEPT !.skip = FALSE], DirTags)

\* process_directory making the collision check only when it moves
process_directory_dry_no_skip(fs, target, name, dest_container, dry_run) ==
  relocate_variant(fs, target, name, dest_container, dry_run,
                   [Faithful EXCEPT !.dry_skip = FALSE], DirTags)

\* ----------------------------------------------------------- relocators
\* process_file: [fs, ret, out]
process_file(fs, target, name, category, dry_run) ==
  LET category_dir == <<category>>
      mk == IF ~dry_run /\ ~Exists(fs, category_dir)
              THEN create_dir_all(fs, target, category_dir)
              ELSE [ok |-> TRUE, fs |-> fs]
      dest_path == <<category, name>>
      mv == rename(mk.fs, target, <<name>>, dest_path)
  IN IF ~mk.ok
       THEN [fs |-> fs, ret |-> FALSE,
             out |-> <<Line("stderr", "ERR_CREATE", category, <<>>)>>]
     ELSE IF Exists(mk.fs, dest_path)
       THEN [fs |-> mk.fs, ret |-> FALSE,
             out |-> <<Line("stdout", "SKIP", category, name)>>]
     ELSE IF dry_run
       THEN [fs |-> mk.fs, ret |-> TRUE,
             out |-> <<Line("stdout", "ACT", category, name)>>]
     ELSE IF ~mv.ok
       THEN [fs |-> mk.fs, ret |-> FALSE,
             out |-> <<Line("stdout", "ACT", category, name),
                       Line("stderr", "ERR_MOVE", category, name)>>]
     ELSE [fs |-> mv.fs, ret |-> TRUE,
           out |-> <<Line("stdout", "ACT", category, name)>>]

\* process_directory: [fs, ret, out]
process_directory(fs, target, name, dest_container, dry_run) ==
  LET container_dir == <<dest_container>>
      mk == IF ~dry_run /\ ~Exists(fs, container_dir)
              THEN create_dir_all(fs, target, container_dir)
              ELSE [ok |-> TRUE, fs |-> fs]
      dest_path == <<dest_container, name>>
      mv == rename(mk.fs, target, <<name>>, dest_path)
  IN IF ~mk.ok
       THEN [fs |-> fs, ret |-> FALSE,
             out |-> <<Line("stderr", "ERR_CREATE_CONTAINER", dest_container, <<>>)>>]
     ELSE IF <<name>> = container_dir
       THEN [fs |-> mk.fs, ret |-> FALSE, out |-> <<>>]
     ELSE IF Exists(mk.fs, dest_path)
       THEN [fs |-> mk.fs, ret |-> FALSE,
             out |-> <<Line("stdout", "SKIP_DIR", dest_container, name)>>]
     ELSE IF dry_run
       THEN [fs |-> mk.fs, ret |-> TRUE,
             out |-> <<Line("stdout", "ACT_DIR", dest_container, name)>>]
     ELSE IF ~mv.ok
       THEN [fs |-> mk.fs, ret |-> FALSE,
             out |-> <<Line("stdout", "ACT_DIR", dest_container, name),
                       Line("stderr", "ERR_MOVE_DIR", dest_container, name)>>]
     ELSE [fs |-> mv.fs, ret |-> TRUE,
           out |-> <<Line("stdout", "ACT_DIR", dest_container, name)>>]

\* ------------------------------------------------------------ main loop
\* How a relocator call ended, read off its return value and its last line.
Outcome(r) ==
  IF r.ret THEN "ok"
  ELSE IF r.out = <<>> THEN "self"
  ELSE IF r.out[Len(r.out)].tag \in {"SKIP", "SKIP_DIR"} THEN "skip"
  ELSE IF r.out[Len(r.out)].tag \in {"ERR_CREATE", "ERR_CREATE_CONTAINER"} THEN "create_failed"
  ELSE "move_failed"

LogEntry(name, isdir, category, result) ==
  [name |-> name, isdir |-> isdir, category |-> category, result |-> result]

\* One iteration of main's for loop on the entry named n.  run is
\* [fs, files_count, dirs_count, out, log]; log records, per iteration, the
\* entry, its classification and the outcome.
LoopBody(run, target, dry_run, n) ==
  IF IsDir(run.fs, <<n>>)
    THEN IF n \in get_protected_folder_names
           THEN [run EXCEPT !.log = Append(@, LogEntry(n, TRUE, <<>>, "protected"))]
           ELSE LET r == process_directory(run.fs, target, n, N_Folders, dry_run)
                IN [fs |-> r.fs,
                    files_count |-> run.files_count,
                    dirs_count |-> IF r.ret THEN run.dirs_count + 1 ELSE run.dirs_count,
                    out |-> run.out \o r.out,
                    log |-> Append(run.log, LogEntry(n, TRUE, N_Folders, Outcome(r)))]
    ELSE LET category == CategoryOf(n)
             r == process_file(run.fs, target, n, category, dry_run)
         IN [fs |-> r.fs,
             files_count |-> IF r.ret THEN run.files_count + 1 ELSE run.files_count,
             dirs_count |-> run.dirs_count,
             out |-> run.out \o r.out,
             log |-> Append(run.log, LogEntry(n, FALSE, category, Outcome(r)))]

RECURSIVE Pass(_, _, _, _)
\* The whole loop over the entries in the order given.
Pass(run, target, dry_run, order) ==
  IF order = <<>> THEN run
  ELSE Pass(LoopBody(run, target, dry_run, Head(order)), target, dry_run, Tail(order))

NewRun(fs) == [fs |-> fs, files_count |-> 0, dirs_count |-> 0, out |-> <<>>, log |-> <<>>]

\* ----------------------------------------------------------------- state
VARIABLES
  target,       \* "ok" | "readonly" | "unreadable" | "notdir"
  dry_run,      \* args.dry_run
  fs,           \* the nodes below the target
  fs0,          \* fs before the run
  pc,           \* "start" | "scan" | "done" | "exit1"
  listing,      \* names read_dir found when the scan began
  entries,      \* names of the listing not yet yielded
  visited,      \* names yielded so far, in order
  files_count,
  dirs_count,
  out,          \* per-entry lines printed so far
  log,          \* per-iteration record of classification and outcome
  summary,      \* <<files, dirs>> once the summary line is printed
  exit_code     \* -1 while running

vars == <<target, dry_run, fs, fs0, pc, listing, entries, visited,
          files_count, dirs_count, out, log, summary, exit_code>>

RECURSIVE UpTo(_, _)
\* the subsets of S with at most k elements
UpTo(S, k) ==
  IF k = 0 THEN {{}}
  ELSE UpTo(S, k - 1) \cup {T \cup {x} : T \in UpTo(S, k - 1), x \in S}

TopNodes == {[path |-> <<n>>, kind |-> k, orig |-> <<n>>] : n \in Names, k \in {"file", "dir"}}

TopStates == {T \in UpTo(TopNodes, MaxEntries) : \A a, b \in T : a.path = b.path => a = b}

Containers(T) == {e.path[1] : e \in {x \in T : x.kind = "dir" /\ x.path[1] \in get_protected_folder_names}}

InnerNodes(T) ==
  {[path |-> <<c, n>>, kind |-> k, orig |-> <<c, n>>] :
     c \in Containers(T), n \in Names, k \in {"file", "dir"}}

InnerStates(T) == {I \in UpTo(InnerNodes(T), MaxEntries - Cardinality(T)) : \A a, b \in I : a.path = b.path => a = b}

Init ==
  /\ target \in {"ok", "readonly", "unreadable", "notdir"}
  /\ dry_run \in BOOLEAN
  /\ \E T \in TopStates : \E I \in InnerStates(T) :
       fs = IF target = "notdir" THEN {} ELSE T \cup I
  /\ fs0 = fs
  /\ pc = "start"
  /\ listing = {}
  /\ entries = {}
  /\ visited = <<>>
  /\ files_count = 0
  /\ dirs_count = 0
  /\ out = <<>>
  /\ log = <<>>
  /\ summary = <<>>
  /\ exit_code = -1

\* main: the target is not a directory
ExitNotDir ==
  /\ pc = "start"
  /\ target = "notdir"
  /\ pc' = "exit1"
  /\ exit_code' = 1
  /\ UNCHANGED <<target, dry_run, fs, fs0, listing, entries, visited,
                 files_count, dirs_count, out, log, summary>>

\* main: fs::read_dir fails
ExitReadFail ==
  /\ pc = "start"
  /\ target = "unreadable"
  /\ pc' = "exit1"
  /\ exit_code' = 1
  /\ UNCHANGED <<target, dry_run, fs, fs0, listing, entries, visited,
                 files_count, dirs_count, out, log, summary>>

\* main: fs::read_dir succeeds
ReadDir ==
  /\ pc = "start"
  /\ target \in {"ok", "readonly"}
  /\ pc' = "scan"
  /\ listing' = TopNames(fs)
  /\ entries' = TopNames(fs)
  /\ UNCHANGED <<target, dry_run, fs, fs0, visited, files_count, dirs_count,
                 out, log, summary, exit_code>>

\* Names the iterator can yield next: those of the listing not yet yielded,
\* and directories created below the target since the scan began, which
\* the iterator may or may not report.
Yieldable == entries \cup (TopNames(fs) \ (listing \cup Range(visited)))

Iterate(n) ==
  LET r == LoopBody([fs |-> fs, files_count |-> files_count, dirs_count |-> dirs_count,
                     out |-> out, log |-> log], target, dry_run, n)
  IN /\ fs' = r.fs
     /\ files_count' = r.files_count
     /\ dirs_count' = r.dirs_count
     /\ out' = r.out
     /\ log' = r.log
     /\ entries' = entries \ {n}
     /\ visited' = Append(visited, n)
     /\ UNCHANGED <<target, dry_run, fs0, pc, listing, summary, exit_code>>

\* main loop, a directory bearing a protected name: continue
SkipProtected ==
  /\ pc = "scan"
  /\ \E n \in Yieldable :
       /\ IsDir(fs, <<n>>)
       /\ n \in get_protected_folder_names
       /\ Iterate(n)

\* main loop, a loose directory: process_directory into "Folders"
HandleDirectory ==
  /\ pc = "scan"
  /\ \E n \in Yieldable :
       /\ IsDir(fs, <<n>>)
       /\ n \notin get_protected_folder_names
       /\ Iterate(n)

\* main loop, a file: process_file into its category
HandleFile ==
  /\ pc = "scan"
  /\ \E n \in Yieldable :
       /\ ~IsDir(fs, <<n>>)
       /\ Iterate(n)

\* main: the iterator is exhausted; print the summary, return
Finish ==
  /\ pc = "scan"
  /\ entries = {}
  /\ pc' = "done"
  /\ summary' = <<files_count, dirs_count>>
  /\ exit_code' = 0
  /\ UNCHANGED <<target, dry_run, fs, fs0, listing, entries, visited,
                 files_count, dirs_count, out, log>>

Next ==
  \/ ExitNotDir
  \/ ExitReadFail
  \/ ReadDir
  \/ SkipProtected
  \/ HandleDirectory
  \/ HandleFile
  \/ Finish

Spec == Init /\ [][Next]_vars

TypeOK ==
  /\ pc \in {"start", "scan", "done", "exit1"}
  /\ \A e \in fs : Len(e.path) = 2 => IsDir(fs, <<e.path[1]>>)
  /\ \A a, b \in fs : a.path = b.path => a = b
  /\ files_count \in Nat /\ dirs_count \in Nat

\* ------------------------------------------------- notions of the claims
RECURSIVE Orders(_)
\* every order in which the names of S can be enumerated
Orders(S) ==
  IF S = {} THEN {<<>>}
  ELSE UNION {{<<x>> \o o : o \in Orders(S \ {x})} : x \in S}

IsListed(n) == n \in listing
IsStdout(l) == l.stream = "stdout"

\* the entries of the listing in the order the run met them, and their log
ListedOrder == SelectSeq(visited, IsListed)
IsListedEntry(l) == l.name \in listing
ListedLog == SelectSeq(log, IsListedEntry)

Failed(l) == l.result \in {"create_failed", "move_failed"}
CountOf(s, Test(_)) == Cardinality({i \in DOMAIN s : Test(s[i])})
TagCount(tag) == Cardinality({i \in DOMAIN out : out[i].tag = tag})

TopNode(n, kind) == [path |-> <<n>>, kind |-> kind, orig |-> <<n>>]
MovedNode(c, n, kind) == [path |-> <<c, n>>, kind |-> kind, orig |-> <<n>>]

\* the protected names as the documentation lists them
ProtectedNames ==
  {N_images, N_documents, N_spreadsheets, N_presentations, N_archives,
   N_audio, N_video, N_code, N_APPS, N_Others, N_Folders}

\* the extension of a name as "the part after the last dot", lower-cased
AfterLastDot(n) ==
  IF LastDot(n) = 0 THEN <<>> ELSE to_lowercase(SubSeq(n, LastDot(n) + 1, Len(n)))

\* the same, except that a name whose only dot is its first character has
\* no extension
AfterInnerDot(n) ==
  IF LastDot(n) <= 1 THEN <<>> ELSE to_lowercase(SubSeq(n, LastDot(n) + 1, Len(n)))

FolderFor(ext) ==
  IF ext \in DOMAIN get_extension_map THEN get_extension_map[ext] ELSE N_Others

\* ------------------------------------------------------------- claims

\* C1: no overwrite, ever.  In a non-dry-run pass, when a file or a loose
\* directory is processed while <category>/<name> already exists, the
\* relocator skips it: nothing in the filesystem changes, the entry stays at
\* the top level and neither counter moves; and no step of any run removes
\* or alters an entry that is inside a container.
C1_NoOverwrite ==
  [][ /\ \A e \in fs : Len(e.path) = 2 => e \in fs'
      /\ \A n \in Names :
           ( /\ pc = "scan" /\ ~dry_run
             /\ visited' = Append(visited, n)
             /\ ~(IsDir(fs, <<n>>) /\ n \in ProtectedNames)
             /\ Exists(fs, <<log'[Len(log')].category, n>>) )
           => /\ fs' = fs
              /\ files_count' = files_count
              /\ dirs_count' = dirs_count
              /\ log'[Len(log')].result = "skip"
              /\ \E l \in Range(out') : l.tag \in {"SKIP", "SKIP_DIR"} /\ l.name = n
    ]_vars

\* C1 witness: a real pass skipped a file whose destination was occupied
C1_Witness ==
  /\ pc = "done" /\ ~dry_run
  /\ \E i \in DOMAIN log : log[i].result = "skip" /\ ~log[i].isdir
       /\ Exists(fs0, <<log[i].category, log[i].name>>)
       /\ TopNode(log[i].name, "file") \in fs

\* C2: a dry-run pass leaves the filesystem as it was, whatever it was.
C2_DryRunFrame == dry_run => fs = fs0

\* C2 witness: a dry run finished having announced a move into a container
\* that does not exist
C2_Witness ==
  /\ pc = "done" /\ dry_run
  /\ \E i \in DOMAIN log : log[i].result = "ok" /\ ~Exists(fs, <<log[i].category>>)

\* the dry-run pass over the state the run began in, in the run's order
DryPass == Pass(NewRun(fs0), target, TRUE, ListedOrder)
IsCreateFailed(l) == l.result = "create_failed"
IsFailedFile(l) == Failed(l) /\ ~l.isdir
IsFailedDir(l) == Failed(l) /\ l.isdir

\* C3 as claimed: a dry-run pass and a real pass from the same state, in
\* the same order, classify alike, print the same per-entry lines and end
\* with equal counters.
C3_DryEqualsReal ==
  (pc = "done" /\ ~dry_run) =>
    LET d == DryPass
        real == ListedLog
    IN /\ \A i \in DOMAIN real : d.log[i].category = real[i].category
       /\ SelectSeq(d.out, IsStdout) = SelectSeq(out, IsStdout)
       /\ d.files_count = files_count
       /\ d.dirs_count = dirs_count

\* C3 amended: the two passes classify every entry alike and agree on every
\* entry the real pass moves or skips; an entry whose container creation or
\* rename fails in the real pass is announced and counted by the dry pass,
\* so the dry counters exceed the real ones by the number of such failures,
\* and the real pass prints the dry pass's lines except those of the entries
\* whose container could not be created.
C3_DryVersusReal ==
  (pc = "done" /\ ~dry_run) =>
    LET d == DryPass
        real == ListedLog
        silenced == {real[i].name : i \in {k \in DOMAIN real : IsCreateFailed(real[k])}}
        Printed(l) == l.stream = "stdout" /\ l.name \notin silenced
    IN /\ Len(d.log) = Len(real)
       /\ \A i \in DOMAIN real :
            /\ d.log[i].name = real[i].name
            /\ d.log[i].isdir = real[i].isdir
            /\ d.log[i].category = real[i].category
            /\ d.log[i].result = IF Failed(real[i]) THEN "ok" ELSE real[i].result
       /\ d.files_count = files_count + CountOf(real, IsFailedFile)
       /\ d.dirs_count = dirs_count + CountOf(real, IsFailedDir)
       /\ SelectSeq(out, IsStdout) = SelectSeq(d.out, Printed)

\* C3 witness: a real pass ended in which one entry was moved and another
\* could not be
C3_Witness ==
  /\ pc = "done" /\ ~dry_run
  /\ \E j, k \in DOMAIN log : log[j].result = "ok" /\ Failed(log[k])

\* C4 as claimed: after a real pass, a second real pass, in whatever order
\* it enumerates the entries, moves nothing and leaves the filesystem as the
\* first pass left it.
C4_Idempotent ==
  (pc = "done" /\ ~dry_run) =>
    \A o \in Orders(TopNames(fs)) :
      LET second == Pass(NewRun(fs), target, FALSE, o)
      IN second.fs = fs /\ second.files_count = 0 /\ second.dirs_count = 0

\* C5 as claimed: after a real pass every top-level file is in the folder
\* the table gives for the part of its name after the last dot, lower-cased,
\* or in "Others" when that part is no key of the table.
C5_EveryFileMoved ==
  (pc = "done" /\ ~dry_run) =>
    \A e \in fs0 : (Len(e.path) = 1 /\ e.kind = "file") =>
      MovedNode(FolderFor(AfterLastDot(e.path[1])), e.path[1], "file") \in fs

\* C5 amended: a file is classified by the text after the last dot of its
\* name, lower-cased, a name without a dot or whose only dot is its first
\* character having no extension: a mapped extension gives the table's
\* folder, never "Others", anything else gives "Others".  In a real pass the
\* file is moved to <category>/<name>, and counted, unless an entry of that
\* name is already there (skipped) or creating the folder or renaming fails,
\* which happens only when the target is not writable or a regular file
\* bears the folder's name; then the file stays at the top level.
C5_Classification ==
  ~dry_run =>
    /\ \A i \in DOMAIN log : ~log[i].isdir =>
         LET n == log[i].name
             cat == FolderFor(AfterInnerDot(n))
         IN /\ log[i].category = cat
            /\ AfterInnerDot(n) \in DOMAIN get_extension_map => cat # N_Others
            /\ log[i].result \in {"ok", "skip", "create_failed", "move_failed"}
            /\ log[i].result = "ok" =>
                 MovedNode(cat, n, "file") \in fs /\ TopNode(n, "file") \notin fs
            /\ log[i].result # "ok" => TopNode(n, "file") \in fs
            /\ log[i].result = "skip" <=> Exists(fs0, <<cat, n>>)
            /\ Failed(log[i]) => ~Writable(target) \/ TopNode(cat, "file") \in fs0
    /\ files_count = Cardinality({i \in DOMAIN log : ~log[i].isdir /\ log[i].result = "ok"})

\* C5 witness: a real pass moved a file with an upper-case mapped extension
\* into its folder and a file without extension into "Others"
C5_Witness ==
  /\ pc = "done" /\ ~dry_run
  /\ MovedNode(N_images, N_aJPG, "file") \in fs
  /\ \E n \in Names : extension(n) = <<>> /\ MovedNode(N_Others, n, "file") \in fs

\* C6: a top-level directory bearing one of the protected names is left in
\* place by every step of a run, and when the scan meets it, also one the
\* run created itself, it is not handed to the relocator: nothing is moved,
\* printed or counted.
C6_ProtectedLeftAlone ==
  [][ /\ \A e \in fs :
           (Len(e.path) = 1 /\ e.kind = "dir" /\ e.path[1] \in ProtectedNames) => e \in fs'
      /\ \A n \in ProtectedNames :
           (pc = "scan" /\ visited' = Append(visited, n) /\ IsDir(fs, <<n>>))
           => /\ UNCHANGED <<fs, files_count, dirs_count, out>>
              /\ log'[Len(log')].result = "protected"
    ]_vars

\* C6 witness: the scan met a protected directory that was there before the
\* run and a container the run had created
C6_Witness ==
  \E i, j \in DOMAIN log :
    /\ log[i].result = "protected" /\ log[i].name \in listing
    /\ log[j].result = "protected" /\ log[j].name \notin listing

C8_SourcePathGone ==
  ~dry_run =>
    /\ \A i, j \in DOMAIN visited : visited[i] = visited[j] => i = j
    /\ \A i \in DOMAIN log : log[i].result = "ok" =>
         /\ ~Exists(fs, <<log[i].name>>)
         /\ Exists(fs, <<log[i].category, log[i].name>>)

\* C8 amended: no entry is processed twice; every entry the run began with
\* is at exactly one place; an entry moved in a real pass is at
\* <category>/<name> and no longer at the top level, where its name is then
\* either absent or borne by a container directory the run created later.
C8_Ownership ==
  /\ \A i, j \in DOMAIN visited : visited[i] = visited[j] => i = j
  /\ \A e \in fs0 : Cardinality({x \in fs : x.orig = e.orig}) = 1
  /\ ~dry_run =>
       \A i \in DOMAIN log : log[i].result = "ok" =>
         LET n == log[i].name
         IN /\ \E x \in fs : x.path = <<log[i].category, n>> /\ x.orig = <<n>>
            /\ \A x \in fs : x.path = <<n>> =>
                 x.orig = <<>> /\ x.kind = "dir" /\ n \in ProtectedNames

\* C8 witness: a real pass moved a file and a directory
C8_Witness ==
  /\ pc = "done" /\ ~dry_run
  /\ \E i, j \in DOMAIN log :
       /\ ~log[i].isdir /\ log[i].result = "ok"
       /\ log[j].isdir /\ log[j].result = "ok"

\* C9: failures are local.  When creating a container or a rename fails in
\* a real pass the entry stays where it was and is not counted; the entries
\* still to come are exactly those of the listing not yet processed, a run
\* that ends after the scan has processed all of them and ends with the
\* summary and exit code 0; exit code 1 is given only when the target is
\* not a directory or cannot be read, before anything is processed.
C9_FailuresLocal ==
  /\ pc = "exit1" <=> exit_code = 1
  /\ pc = "done" <=> exit_code = 0
  /\ pc = "exit1" => target \in {"notdir", "unreadable"} /\ log = <<>> /\ fs = fs0
  /\ target \in {"notdir", "unreadable"} => pc \in {"start", "exit1"}
  /\ pc \in {"scan", "done"} => entries = listing \ Range(visited)
  /\ pc = "done" => /\ summary = <<files_count, dirs_count>>
                    /\ listing \subseteq Range(visited)
  /\ ~dry_run =>
       /\ \A i \in DOMAIN log : Failed(log[i]) =>
            TopNode(log[i].name, IF log[i].isdir THEN "dir" ELSE "file") \in fs
       /\ files_count = TagCount("ACT") - TagCount("ERR_MOVE")
       /\ dirs_count = TagCount("ACT_DIR") - TagCount("ERR_MOVE_DIR")
       /\ Cardinality({i \in DOMAIN log : Failed(log[i])})
            = TagCount("ERR_MOVE") + TagCount("ERR_MOVE_DIR")
              + TagCount("ERR_CREATE") + TagCount("ERR_CREATE_CONTAINER")

\* C9 witness: a real pass ended with exit code 0 in which an entry was
\* moved after the rename of an earlier one had failed
C9_Witness ==
  /\ pc = "done" /\ ~dry_run /\ exit_code = 0
  /\ \E i, j \in DOMAIN log :
       i < j /\ log[i].result = "move_failed" /\ log[j].result = "ok"

\* C10 as claimed: the filesystem and the counters a real pass ends with are
\* the same for every order in which the entries are enumerated.
C10_OrderIndependent ==
  (pc = "done" /\ ~dry_run) =>
    \A o \in Orders(listing) :
      LET other == Pass(NewRun(fs0), target, FALSE, o)
      IN /\ other.fs = fs
         /\ other.files_count = files_count
         /\ other.dirs_count = dirs_count

====
